---- MODULE Spec2Model ----
(***************************************************************************)
(* The SQL-fragment builders of express-jobly (helpers/sql.js):            *)
(* sqlForPartialUpdate and sqlForWhereClause.                              *)
(*                                                                         *)
(* A JavaScript object is modelled by the sequence of its own enumerable   *)
(* entries [key, val] in Object.keys order; keys are pairwise distinct.    *)
(* Strings are TLA+ strings, so concatenation, prefix tests and substring  *)
(* search are computed on the text itself.  Values of the mappings are     *)
(* strings (query-string and JSON string values).                          *)
(***************************************************************************)
EXTENDS Integers, Sequences, FiniteSets, TLC

(***************************************************************************)
(* Bounds of the model.                                                    *)
(***************************************************************************)
MaxFields == 2
MaxFilters == 3
MaxCalls == 2
MaxOps == 3
MaxQuery == 2
MaxFilterCalls == 2

(***************************************************************************)
(* JavaScript values that may be undefined are tagged.                     *)
(***************************************************************************)
Undefined == [type |-> "undefined"]

Str(s) == [type |-> "string", val |-> s]

\* ToBoolean on a string-or-undefined value: undefined and "" are falsy.
Truthy(x) == x.type = "string" /\ x.val # ""

\* String(x) as Array.prototype.join applies it: undefined becomes "".
JoinText(x) == IF x.type = "undefined" THEN "" ELSE x.val

(***************************************************************************)
(* Objects.                                                                *)
(***************************************************************************)
ObjectKeys(o) == [i \in 1..Len(o) |-> o[i].key]

ObjectValues(o) == [i \in 1..Len(o) |-> o[i].val]

HasOwn(o, k) == \E i \in 1..Len(o) : o[i].key = k

\* o[k] for an object of string values
GetProp(o, k) ==
  IF HasOwn(o, k)
    THEN Str((CHOOSE e \in {o[i] : i \in 1..Len(o)} : e.key = k).val)
    ELSE Undefined

\* o[k] = v : overwrites in place, or appends a new own property
SetProp(o, k, v) ==
  IF HasOwn(o, k)
    THEN [i \in 1..Len(o) |-> IF o[i].key = k THEN [key |-> k, val |-> v] ELSE o[i]]
    ELSE Append(o, [key |-> k, val |-> v])

(***************************************************************************)
(* Strings.                                                                *)
(***************************************************************************)
Digits == "0123456789"

RECURSIVE NumToStr(_)
\* the decimal text a template literal gives a non-negative integer
NumToStr(n) ==
  IF n < 10 THEN SubSeq(Digits, n + 1, n + 1)
  ELSE NumToStr(n \div 10) \o SubSeq(Digits, (n % 10) + 1, (n % 10) + 1)

StartsWith(s, p) == Len(s) >= Len(p) /\ SubSeq(s, 1, Len(p)) = p

RECURSIVE JoinFrom(_, _, _)
JoinFrom(arr, sep, i) ==
  IF i > Len(arr) THEN ""
  ELSE sep \o JoinText(arr[i]) \o JoinFrom(arr, sep, i + 1)

\* Array.prototype.join
Join(arr, sep) ==
  IF Len(arr) = 0 THEN ""
  ELSE JoinText(arr[1]) \o JoinFrom(arr, sep, 2)

(***************************************************************************)
(* helpers/sql.js                                                          *)
(***************************************************************************)
BadRequestError(msg) == [status |-> "throw", error |-> "BadRequestError", message |-> msg]

\* UpdateCol numbering the placeholders from $0: idx for idx + 1
UpdateCol_ZeroBased(jsToSql, colName, idx) ==
  LET alias == GetProp(jsToSql, colName)
      col == IF Truthy(alias) THEN alias.val ELSE colName
  IN  Str("\"" \o col \o "\"=$" \o NumToStr(idx))

\* `"${jsToSql[colName] || colName}"=$${idx + 1}`, idx counted from 0
UpdateCol(jsToSql, colName, idx) ==
  LET alias == GetProp(jsToSql, colName)
      col == IF Truthy(alias) THEN alias.val ELSE colName
  IN  Str("\"" \o col \o "\"=$" \o NumToStr(idx + 1))

\* sqlForPartialUpdate without its keys.length === 0 check
sqlForPartialUpdate_NoCheck(dataToUpdate, jsToSql) ==
  LET keys == ObjectKeys(dataToUpdate)
      cols == [i \in 1..Len(keys) |-> UpdateCol(jsToSql, keys[i], i - 1)]
  IN  [status |-> "return",
       setCols |-> Join(cols, ", "),
       values |-> ObjectValues(dataToUpdate)]

sqlForPartialUpdate(dataToUpdate, jsToSql) ==
  LET keys == ObjectKeys(dataToUpdate)
      cols == [i \in 1..Len(keys) |-> UpdateCol(jsToSql, keys[i], i - 1)]
  IN  IF Len(keys) = 0 THEN BadRequestError("No data")
      ELSE [status |-> "return",
            setCols |-> Join(cols, ", "),
            values |-> ObjectValues(dataToUpdate)]

\* WhereCondition with the comparison of the "max" branch turned round
WhereCondition_MaxAsMin(searchTerm, idx) ==
  IF searchTerm # "name"
    THEN IF StartsWith(searchTerm, "min")
           THEN Str("num_employees >= $" \o NumToStr(idx + 1))
         ELSE IF StartsWith(searchTerm, "max")
           THEN Str("num_employees >= $" \o NumToStr(idx + 1))
         ELSE Undefined
    ELSE Str("name ILIKE $" \o NumToStr(idx + 1))

\* the callback of keys.map in sqlForWhereClause, idx counted from 0
WhereCondition(searchTerm, idx) ==
  IF searchTerm # "name"
    THEN IF StartsWith(searchTerm, "min")
           THEN Str("num_employees >= $" \o NumToStr(idx + 1))
         ELSE IF StartsWith(searchTerm, "max")
           THEN Str("num_employees <= $" \o NumToStr(idx + 1))
         ELSE Undefined
    ELSE Str("name ILIKE $" \o NumToStr(idx + 1))

\* WhereQueriesAfter removing the entry, as `delete queries.name` does
WhereQueriesAfter_DeleteName(queries) ==
  SelectSeq(queries, LAMBDA e : e.key # "name")

\* the filter object as sqlForWhereClause leaves it
WhereQueriesAfter(queries) ==
  IF Truthy(GetProp(queries, "name"))
    THEN SetProp(queries, "name", "%" \o GetProp(queries, "name").val \o "%")
    ELSE queries

\* sqlForWhereClause with the "No data" check of sqlForPartialUpdate
sqlForWhereClause_NoDataCheck(queries) ==
  LET keys == ObjectKeys(queries)
      conditions == [i \in 1..Len(keys) |-> WhereCondition(keys[i], i - 1)]
  IN  IF Len(keys) = 0 THEN BadRequestError("No data")
      ELSE [status |-> "return",
            whereCondition |-> Join(conditions, " AND "),
            values |-> ObjectValues(WhereQueriesAfter(queries))]

sqlForWhereClause(queries) ==
  LET keys == ObjectKeys(queries)
      conditions == [i \in 1..Len(keys) |-> WhereCondition(keys[i], i - 1)]
  IN  [status |-> "return",
       whereCondition |-> Join(conditions, " AND "),
       values |-> ObjectValues(WhereQueriesAfter(queries))]

(***************************************************************************)
(* The callers' inputs.  Objects(K, V, n) is the set of objects with at    *)
(* most n entries, keys in K and values in V.                              *)
(***************************************************************************)
Objects(K, V, n) ==
  UNION { { o \in [1..m -> [key : K, val : V]] :
              \A i, j \in 1..m : i # j => o[i].key # o[j].key } : m \in 0..n }

FieldKeys == {"firstName", "lastName", "age"}

FieldVals == {"Benji", "Mac"}

\* column names a caller may give; "" is a falsy alias
AliasCols == {"first_name", "last_name", ""}

FilterKeys == {"name", "minEmployees", "maxEmployees", "foo"}

FilterVals == {"", "gree", "10"}

FieldMappings == Objects(FieldKeys, FieldVals, MaxFields)

AliasLookups == Objects(FieldKeys, AliasCols, MaxFields)

FilterMappings == Objects(FilterKeys, FilterVals, MaxFilters)

NoCall == [status |-> "none"]

(***************************************************************************)
(* State: the objects a caller holds and hands to the builders, and what   *)
(* the last two calls of each builder gave.                                *)
(***************************************************************************)
VARIABLES
  dataToUpdate,   \* the field mapping handed to sqlForPartialUpdate
  jsToSql,        \* the alias lookup handed to sqlForPartialUpdate
  queries,        \* the filter mapping handed to sqlForWhereClause
  queriesAtCall,  \* queries as it was when the last call was entered
  updateResult,   \* outcome of the last sqlForPartialUpdate call
  updatePrev,     \* outcome of the sqlForPartialUpdate call before it
  whereResult,    \* outcome of the last sqlForWhereClause call
  wherePrev,      \* outcome of the sqlForWhereClause call before it
  calls,          \* number of calls made
  tables,         \* the rows of the tables companies and jobs, in insertion order
  uniqueKeys,     \* whether the schema declares handle / title unique
  pc,             \* per caller: the db.query its model call is awaiting
  call,           \* per caller: the model method called and its argument
  ret,            \* per caller: the outcome of its last finished call
  tablesAtCall,   \* per caller: the tables as its call found them
  sent,           \* per caller: the statements its call gave to db.query
  nops            \* number of model calls started

sqlVars == <<dataToUpdate, jsToSql, queries, queriesAtCall,
             updateResult, updatePrev, whereResult, wherePrev, calls>>

dbVars == <<tables, uniqueKeys, pc, call, ret, tablesAtCall, sent, nops>>

vars == <<sqlVars, dbVars>>

(***************************************************************************)
(* models/company.js, models/jobs.js: the tables and the callers.          *)
(* A company row is [handle, name, numEmployees], a job row is             *)
(* [title, salary, company_handle]; the other columns are carried through  *)
(* the statements untouched and are left out.                              *)
(***************************************************************************)
Procs == {1, 2}

\* the rows the test suites start from
FixtureTables ==
  [companies |-> << [handle |-> "c1", name |-> "c1", numEmployees |-> 1],
                    [handle |-> "c2", name |-> "c2", numEmployees |-> 2],
                    [handle |-> "c3", name |-> "c3", numEmployees |-> 3] >>,
   jobs |-> << [title |-> "j1", salary |-> 1, company_handle |-> "c1"],
               [title |-> "j2", salary |-> 2, company_handle |-> "c2"],
               [title |-> "j3", salary |-> 3, company_handle |-> "c3"] >>]

NoOp == [fn |-> "none"]

\* no model call has been made
DbIdle ==
  /\ tables = FixtureTables
  /\ pc = [p \in Procs |-> "idle"]
  /\ call = [p \in Procs |-> NoOp]
  /\ ret = [p \in Procs |-> NoCall]
  /\ tablesAtCall = [p \in Procs |-> FixtureTables]
  /\ sent = [p \in Procs |-> <<>>]
  /\ nops = 0

\* A caller holds either an update request or a filter request.
Init ==
  /\ \/ /\ dataToUpdate \in FieldMappings
        /\ jsToSql \in AliasLookups
        /\ queries = <<>>
     \/ /\ dataToUpdate = <<>>
        /\ jsToSql = <<>>
        /\ queries \in FilterMappings
  /\ queriesAtCall = <<>>
  /\ updateResult = NoCall
  /\ updatePrev = NoCall
  /\ whereResult = NoCall
  /\ wherePrev = NoCall
  /\ calls = 0
  /\ uniqueKeys = TRUE
  /\ DbIdle

\* a call sqlForPartialUpdate(dataToUpdate, jsToSql)
PartialUpdate ==
  /\ calls < MaxCalls
  /\ updateResult' = sqlForPartialUpdate(dataToUpdate, jsToSql)
  /\ updatePrev' = updateResult
  /\ calls' = calls + 1
  /\ UNCHANGED <<dataToUpdate, jsToSql, queries, queriesAtCall, whereResult, wherePrev>>
  /\ UNCHANGED dbVars

\* a call sqlForWhereClause(queries)
WhereClause ==
  /\ calls < MaxCalls
  /\ whereResult' = sqlForWhereClause(queries)
  /\ queries' = WhereQueriesAfter(queries)
  /\ queriesAtCall' = queries
  /\ wherePrev' = whereResult
  /\ calls' = calls + 1
  /\ UNCHANGED <<dataToUpdate, jsToSql, updateResult, updatePrev>>
  /\ UNCHANGED dbVars

Next == PartialUpdate \/ WhereClause

Spec == Init /\ [][Next]_vars

(***************************************************************************)
(* Reading a clause back: substrings, " AND "/", " pieces, placeholders.   *)
(***************************************************************************)
CharAt(s, i) == SubSeq(s, i, i)

IsDigit(c) == \E d \in 1..10 : CharAt(Digits, d) = c

DigitVal(c) == (CHOOSE d \in 1..10 : CharAt(Digits, d) = c) - 1

Contains(s, t) ==
  \E i \in 1..(Len(s) - Len(t) + 1) : SubSeq(s, i, i + Len(t) - 1) = t

RECURSIVE ReadNum(_, _, _)
\* the number whose digits start at position i of s, continuing acc
ReadNum(s, i, acc) ==
  IF i <= Len(s) /\ IsDigit(CharAt(s, i))
    THEN ReadNum(s, i + 1, acc * 10 + DigitVal(CharAt(s, i)))
    ELSE acc

RECURSIVE PlaceholdersFrom(_, _)
PlaceholdersFrom(s, i) ==
  IF i >= Len(s) THEN <<>>
  ELSE IF CharAt(s, i) = "$" /\ IsDigit(CharAt(s, i + 1))
    THEN <<ReadNum(s, i + 1, 0)>> \o PlaceholdersFrom(s, i + 1)
    ELSE PlaceholdersFrom(s, i + 1)

\* the indices of the positional placeholders $N of a clause, left to right
Placeholders(s) == PlaceholdersFrom(s, 1)

RECURSIVE SplitFrom(_, _, _, _)
SplitFrom(s, sep, i, start) ==
  IF i + Len(sep) - 1 > Len(s) THEN <<SubSeq(s, start, Len(s))>>
  ELSE IF SubSeq(s, i, i + Len(sep) - 1) = sep
    THEN <<SubSeq(s, start, i - 1)>> \o SplitFrom(s, sep, i + Len(sep), i + Len(sep))
    ELSE SplitFrom(s, sep, i + 1, start)

\* the pieces of s between occurrences of sep
Split(s, sep) == SplitFrom(s, sep, 1, 1)

\* 1, 2, ..., n
OneTo(n) == [k \in 1..n |-> k]

\* the position of key k in object o
KeyIndex(o, k) == CHOOSE i \in 1..Len(o) : o[i].key = k

(***************************************************************************)
(* C1.  sqlForPartialUpdate on a non-empty mapping.                        *)
(***************************************************************************)
\* the column of a key when every own alias entry counts
ColumnAnyEntry(A, key) ==
  IF HasOwn(A, key) THEN GetProp(A, key).val ELSE key

\* the column of a key when only a non-empty alias entry counts
ColumnNonEmptyEntry(A, key) ==
  IF HasOwn(A, key) /\ GetProp(A, key).val # "" THEN GetProp(A, key).val ELSE key

RECURSIVE SetColsAnyEntry(_, _, _)
\* "c_1"=$1, ..., "c_n"=$n with c_k by ColumnAnyEntry
SetColsAnyEntry(F, A, n) ==
  IF n = 0 THEN ""
  ELSE (IF n = 1 THEN "" ELSE SetColsAnyEntry(F, A, n - 1) \o ", ")
       \o "\"" \o ColumnAnyEntry(A, F[n].key) \o "\"=$" \o ToString(n)

RECURSIVE SetColsNonEmptyEntry(_, _, _)
\* "c_1"=$1, ..., "c_n"=$n with c_k by ColumnNonEmptyEntry
SetColsNonEmptyEntry(F, A, n) ==
  IF n = 0 THEN ""
  ELSE (IF n = 1 THEN "" ELSE SetColsNonEmptyEntry(F, A, n - 1) \o ", ")
       \o "\"" \o ColumnNonEmptyEntry(A, F[n].key) \o "\"=$" \o ToString(n)

C2_EmptyUpdateThrows ==
  updateResult.status # "none" =>
    /\ Len(dataToUpdate) = 0 => updateResult = BadRequestError("No data")
    /\ Len(dataToUpdate) # 0 => updateResult.status = "return"

\* a call with an empty mapping and a non-empty alias lookup has thrown
C2_Witness ==
  /\ updateResult.status = "throw"
  /\ Len(dataToUpdate) = 0
  /\ Len(jsToSql) > 0

(***************************************************************************)
(* sqlForWhereClause: what a call was given and what it gave.              *)
(***************************************************************************)
\* a key of the filter vocabulary: "name", or prefixed "min" or "max"
KnownKey(k) == k = "name" \/ StartsWith(k, "min") \/ StartsWith(k, "max")

AllKnown(q) == \A i \in 1..Len(q) : KnownKey(q[i].key)

\* the fragment the k-th key is to give
Fragment(key, k) ==
  IF key = "name" THEN "name ILIKE $" \o ToString(k)
  ELSE IF StartsWith(key, "min") THEN "num_employees >= $" \o ToString(k)
  ELSE "num_employees <= $" \o ToString(k)

\* the clause is one fragment per key of q, in order, joined by " AND "
ClauseIsFragmentsOf(clause, q) ==
  IF Len(q) = 0 THEN clause = ""
  ELSE LET pieces == Split(clause, " AND ")
       IN  /\ Len(pieces) = Len(q)
           /\ \A k \in 1..Len(q) : pieces[k] = Fragment(q[k].key, k)

WhereReturned == whereResult.status = "return"

(***************************************************************************)
(* C3.  The "name" filter.                                                 *)
(***************************************************************************)
\* C3: when the filter mapping has a "name" entry with value v at position k,
\* the k-th fragment of the clause is `name ILIKE $k`, the k-th returned value
\* is "%" + v + "%" (for the empty v too), and the clause holds no "%".
C3_NameWrapped ==
  (WhereReturned /\ HasOwn(queriesAtCall, "name")) =>
    LET k == KeyIndex(queriesAtCall, "name")
        v == queriesAtCall[k].val
        pieces == Split(whereResult.whereCondition, " AND ")
    IN  /\ Len(pieces) >= k
        /\ pieces[k] = "name ILIKE $" \o ToString(k)
        /\ Len(whereResult.values) >= k
        /\ whereResult.values[k] = "%" \o v \o "%"
        /\ ~Contains(whereResult.whereCondition, "%")

C5_PlaceholdersMatchValues ==
  /\ updateResult.status = "return" =>
       Len(Placeholders(updateResult.setCols)) = Len(updateResult.values)
  /\ WhereReturned =>
       Len(Placeholders(whereResult.whereCondition)) = Len(whereResult.values)

(***************************************************************************)
(* C6.  Running a builder again on the same object.                        *)
(***************************************************************************)
\* C6: a second run of a builder on the same input mapping object gives the
\* result the first run gave.
C6_SecondRunSame ==
  /\ updatePrev.status # "none" => updateResult = updatePrev
  /\ wherePrev.status # "none" => whereResult = wherePrev

(***************************************************************************)
(* C7.  The filter mapping after a call.                                   *)
(***************************************************************************)
\* C7: after a call of sqlForWhereClause the caller's mapping has the entries,
\* keys and values, it had before the call.
C7_QueriesUntouched ==
  whereResult.status # "none" => queries = queriesAtCall

(***************************************************************************)
(* C8.  The empty filter mapping.                                          *)
(***************************************************************************)
\* C8: a call with an empty filter mapping returns, with an empty clause and
\* an empty value sequence.
C8_EmptyFilter ==
  (whereResult.status # "none" /\ Len(queriesAtCall) = 0) =>
    whereResult = [status |-> "return", whereCondition |-> "", values |-> <<>>]

\* a call with an empty filter mapping has returned
C8_Witness ==
  /\ WhereReturned
  /\ Len(queriesAtCall) = 0
  /\ calls = 1

C10_UnknownKeyThrows ==
  (whereResult.status # "none" /\ ~AllKnown(queriesAtCall)) =>
    whereResult.status = "throw"

(***************************************************************************)
(* models/company.js and models/jobs.js: create and remove.                *)
(* Every db.query is one step of the database; a call is at "check",       *)
(* "insert", "delete" or "select" while it awaits that statement.          *)
(***************************************************************************)
Models == {"Company", "Job"}

TableOf(m) == IF m = "Company" THEN "companies" ELSE "jobs"

\* the column create and remove look a row up by: handle, or title
KeyOf(m, row) == IF m = "Company" THEN row.handle ELSE row.title

\* the data a caller may hand to create
NewRows(m) ==
  IF m = "Company"
    THEN { [handle |-> h, name |-> h, numEmployees |-> 10] : h \in {"c1", "new"} }
    ELSE { [title |-> t, salary |-> 100, company_handle |-> "c1"] : t \in {"j1", "newJob"} }

\* the keys a caller may hand to remove
RemoveKeys(m) == IF m = "Company" THEN {"c1", "new"} ELSE {"j1", "newJob"}

NotFoundError(msg) == [status |-> "throw", error |-> "NotFoundError", message |-> msg]

\* the error db.query rejects with when the database refuses a statement
DbError(msg) == [status |-> "throw", error |-> "DatabaseError", message |-> msg]

Return(v) == [status |-> "return", value |-> v]

\* SELECT ... WHERE handle = $1 (title = $1): the rows with that key
SelectByKey(rows, m, k) == SelectSeq(rows, LAMBDA r : KeyOf(m, r) = k)

\* DELETE ... WHERE handle = $1 (title = $1): the rows that stay
DeleteByKey(rows, m, k) == SelectSeq(rows, LAMBDA r : KeyOf(m, r) # k)

\* DuplicateFound demanding two rows: rows[1] for rows[0]
DuplicateFound_SecondRow(rows) == Len(rows) > 1

\* `if (duplicateCheck.rows[0])`
DuplicateFound(rows) == Len(rows) > 0

DuplicateMessage(m, k) ==
  IF m = "Company" THEN "Duplicate company: " \o k ELSE "Duplicate Job: " \o k

NoSuchMessage(m, k) ==
  IF m = "Company" THEN "No company: " \o k ELSE "No Job: " \o k

SelectKeySql(m) ==
  IF m = "Company" THEN "SELECT handle FROM companies WHERE handle = $1"
  ELSE "SELECT title FROM jobs WHERE title = $1"

InsertSql(m) ==
  IF m = "Company"
    THEN "INSERT INTO companies(handle, name, description, num_employees, logo_url) VALUES ($1, $2, $3, $4, $5)"
  ELSE "INSERT INTO jobs(title, salary, equity, company_handle) VALUES ($1, $2, $3, $4)"

DeleteSql(m) ==
  IF m = "Company" THEN "DELETE FROM companies WHERE handle = $1 RETURNING handle"
  ELSE "DELETE FROM jobs WHERE title = $1 RETURNING title"

Statement(sql, values) == [sql |-> sql, values |-> values]

CanBegin(p) == pc[p] \in {"idle", "done"} /\ nops < MaxOps

\* the synchronous start of a call by caller p, up to its first await
Begin(p, op, at, stmt) ==
  /\ pc' = [pc EXCEPT ![p] = at]
  /\ call' = [call EXCEPT ![p] = op]
  /\ ret' = [ret EXCEPT ![p] = NoCall]
  /\ tablesAtCall' = [tablesAtCall EXCEPT ![p] = tables]
  /\ sent' = [sent EXCEPT ![p] = <<stmt>>]
  /\ nops' = nops + 1

\* Company.create / Job.create is called: the duplicate check is sent
BeginCreate(p) ==
  /\ CanBegin(p)
  /\ \E m \in Models : \E data \in NewRows(m) :
       Begin(p, [fn |-> "create", model |-> m, data |-> data], "check",
             Statement(SelectKeySql(m), <<KeyOf(m, data)>>))
  /\ UNCHANGED <<tables, uniqueKeys, sqlVars>>

\* the duplicate check is answered: throw, or send the INSERT
CreateCheck(p) ==
  /\ pc[p] = "check"
  /\ LET m == call[p].model
         k == KeyOf(m, call[p].data)
         duplicateCheck == SelectByKey(tables[TableOf(m)], m, k)
     IN  IF DuplicateFound(duplicateCheck)
           THEN /\ ret' = [ret EXCEPT ![p] = BadRequestError(DuplicateMessage(m, k))]
                /\ pc' = [pc EXCEPT ![p] = "done"]
                /\ UNCHANGED sent
           ELSE /\ pc' = [pc EXCEPT ![p] = "insert"]
                /\ sent' = [sent EXCEPT ![p] = Append(@, Statement(InsertSql(m), <<call[p].data>>))]
                /\ UNCHANGED ret
  /\ UNCHANGED <<tables, uniqueKeys, call, tablesAtCall, nops, sqlVars>>

\* the INSERT is executed: the row is stored and returned, unless the schema
\* declares the key unique and a row with that key is there
CreateInsert(p) ==
  /\ pc[p] = "insert"
  /\ LET m == call[p].model
         t == TableOf(m)
         k == KeyOf(m, call[p].data)
     IN  IF uniqueKeys /\ Len(SelectByKey(tables[t], m, k)) > 0
           THEN /\ ret' = [ret EXCEPT ![p] = DbError("unique_violation")]
                /\ UNCHANGED tables
           ELSE /\ tables' = [tables EXCEPT ![t] = Append(@, call[p].data)]
                /\ ret' = [ret EXCEPT ![p] = Return(call[p].data)]
  /\ pc' = [pc EXCEPT ![p] = "done"]
  /\ UNCHANGED <<uniqueKeys, call, tablesAtCall, sent, nops, sqlVars>>

\* Company.remove / Job.remove is called: the DELETE is sent
BeginRemove(p) ==
  /\ CanBegin(p)
  /\ \E m \in Models : \E k \in RemoveKeys(m) :
       Begin(p, [fn |-> "remove", model |-> m, key |-> k], "delete",
             Statement(DeleteSql(m), <<k>>))
  /\ UNCHANGED <<tables, uniqueKeys, sqlVars>>

\* the DELETE is executed: NotFoundError when it returned no row
RemoveDelete(p) ==
  /\ pc[p] = "delete"
  /\ LET m == call[p].model
         t == TableOf(m)
         k == call[p].key
         deleted == SelectByKey(tables[t], m, k)
     IN  /\ tables' = [tables EXCEPT ![t] = DeleteByKey(@, m, k)]
         /\ ret' = [ret EXCEPT ![p] =
                      IF Len(deleted) = 0 THEN NotFoundError(NoSuchMessage(m, k))
                      ELSE Return(Undefined)]
  /\ pc' = [pc EXCEPT ![p] = "done"]
  /\ UNCHANGED <<uniqueKeys, call, tablesAtCall, sent, nops, sqlVars>>

\* the state before any model call; the builders are not called here
InitDb ==
  /\ dataToUpdate = <<>>
  /\ jsToSql = <<>>
  /\ queries = <<>>
  /\ queriesAtCall = <<>>
  /\ updateResult = NoCall
  /\ updatePrev = NoCall
  /\ whereResult = NoCall
  /\ wherePrev = NoCall
  /\ calls = 0
  /\ uniqueKeys \in BOOLEAN
  /\ DbIdle

\* two callers whose calls interleave at every db.query
NextConc ==
  \E p \in Procs : BeginCreate(p) \/ CreateCheck(p) \/ CreateInsert(p)

SpecConc == InitDb /\ [][NextConc]_vars

(***************************************************************************)
(* Company.filter and Job.filter.  The two methods have the same text, and *)
(* so have Company._sqlForWhereClause, Job._sqlForWhereClause and          *)
(* sqlForWhereClause of helpers/sql.js.                                    *)
(***************************************************************************)
NaN == [type |-> "nan"]

Num(n) == [type |-> "number", val |-> n]

IsDigitString(s) == Len(s) > 0 /\ \A i \in 1..Len(s) : IsDigit(CharAt(s, i))

\* Number(x) for undefined, "" and strings of decimal digits or other text
Number(x) ==
  IF x.type = "undefined" THEN NaN
  ELSE IF x.val = "" THEN Num(0)
  ELSE IF IsDigitString(x.val) THEN Num(ReadNum(x.val, 1, 0))
  ELSE NaN

\* a < b on numbers: false when either is NaN
LessThan(a, b) == a.type = "number" /\ b.type = "number" /\ a.val < b.val

\* MaxBelowMin with <= for <
MaxBelowMin_OrEqual(q) ==
  LET a == Number(GetProp(q, "maxEmployees"))
      b == Number(GetProp(q, "minEmployees"))
  IN  a.type = "number" /\ b.type = "number" /\ a.val <= b.val

\* Number(queries.maxEmployees) < Number(queries.minEmployees)
MaxBelowMin(q) ==
  LessThan(Number(GetProp(q, "maxEmployees")), Number(GetProp(q, "minEmployees")))

_sqlForWhereClause(q) == sqlForWhereClause(q)

\* querySql of filter, its white space reduced to single blanks
FilterSql(whereCondition) ==
  "SELECT handle, name, description, num_employees AS \"numEmployees\", logo_url AS \"logoUrl\" FROM companies WHERE "
    \o whereCondition \o " ORDER BY name"

\* the filters a caller may put in a query string
QueryEntries ==
  { [key |-> "name", val |-> "c"], [key |-> "title", val |-> "j1"] }
  \cup [key : {"minEmployees", "maxEmployees", "minSalary"}, val : {"1", "10"}]

\* the objects of at most n of these entries, keys distinct
QueryMappings ==
  UNION { { o \in [1..m -> QueryEntries] :
              \A i, j \in 1..m : i # j => o[i].key # o[j].key } : m \in 0..MaxQuery }

(***************************************************************************)
(* The database executing the SELECT of filter.                            *)
(***************************************************************************)
\* the first position of t in s, 0 when there is none
IndexOf(s, t) ==
  IF Contains(s, t)
    THEN CHOOSE i \in 1..(Len(s) - Len(t) + 1) :
           /\ SubSeq(s, i, i + Len(t) - 1) = t
           /\ \A j \in 1..(i - 1) : SubSeq(s, j, j + Len(t) - 1) # t
    ELSE 0

\* the text between WHERE and ORDER BY; no WHERE gives [has |-> FALSE]
WherePart(sql) ==
  LET w == IndexOf(sql, " WHERE ")
      o == IndexOf(sql, " ORDER BY ")
  IN  IF w = 0 THEN [has |-> FALSE, cond |-> ""]
      ELSE [has |-> TRUE, cond |-> SubSeq(sql, w + Len(" WHERE "), o - 1)]

\* one comparison `column operator $n` of the condition, or not one
ParsePredicate(piece) ==
  LET forms == << [lead |-> "name ILIKE $", col |-> "name", op |-> "ILIKE"],
                  [lead |-> "num_employees >= $", col |-> "num_employees", op |-> ">="],
                  [lead |-> "num_employees <= $", col |-> "num_employees", op |-> "<="] >>
      fits(f) == /\ StartsWith(piece, f.lead)
                 /\ IsDigitString(SubSeq(piece, Len(f.lead) + 1, Len(piece)))
  IN  IF \E i \in 1..Len(forms) : fits(forms[i])
        THEN LET f == forms[CHOOSE i \in 1..Len(forms) : fits(forms[i])]
             IN  [ok |-> TRUE, col |-> f.col, op |-> f.op,
                  idx |-> ReadNum(piece, Len(f.lead) + 1, 0)]
        ELSE [ok |-> FALSE]

\* text ILIKE pattern, for a pattern "%x%" or a pattern without wildcard;
\* all text of the model is lower case
ILike(text, pattern) ==
  IF Len(pattern) >= 2 /\ StartsWith(pattern, "%")
       /\ CharAt(pattern, Len(pattern)) = "%"
    THEN Contains(text, SubSeq(pattern, 2, Len(pattern) - 1))
    ELSE text = pattern

\* whether a company row satisfies a comparison with its bound value
Satisfies(row, pred, v) ==
  IF pred.op = "ILIKE" THEN ILike(row.name, v)
  ELSE IF pred.op = ">=" THEN row.numEmployees >= ReadNum(v, 1, 0)
  ELSE row.numEmployees <= ReadNum(v, 1, 0)

\* the names of the model in ORDER BY name order
NameOrder == <<"c1", "c2", "c3", "new">>

NameRank(n) == CHOOSE i \in 1..Len(NameOrder) : NameOrder[i] = n

RECURSIVE OrderByName(_)
OrderByName(rows) ==
  IF Len(rows) = 0 THEN <<>>
  ELSE LET least == CHOOSE i \in 1..Len(rows) :
                      /\ \A j \in 1..Len(rows) : NameRank(rows[i].name) <= NameRank(rows[j].name)
                      /\ \A j \in 1..(i - 1) : NameRank(rows[j].name) # NameRank(rows[i].name)
           others == [k \in 1..(Len(rows) - 1) |-> IF k < least THEN rows[k] ELSE rows[k + 1]]
       IN  <<rows[least]>> \o OrderByName(others)

\* db.query(querySql, values) for the SELECT of filter
ExecFilter(sql, values, tbls) ==
  LET part == WherePart(sql)
      pieces == Split(part.cond, " AND ")
      preds == [i \in 1..Len(pieces) |-> ParsePredicate(pieces[i])]
      typed(i) == preds[i].op = "ILIKE" \/ IsDigitString(values[preds[i].idx])
      keep(row) == \A i \in 1..Len(preds) : Satisfies(row, preds[i], values[preds[i].idx])
  IN  IF ~part.has THEN Return(OrderByName(tbls.companies))
      ELSE IF \E i \in 1..Len(preds) : ~preds[i].ok
        THEN DbError("syntax error")
      ELSE IF \E i \in 1..Len(preds) : preds[i].idx \notin 1..Len(values)
        THEN DbError("there is no parameter")
      ELSE IF \E k \in 1..Len(values) : \A i \in 1..Len(preds) : preds[i].idx # k
        THEN DbError("bind message supplies too many parameters")
      ELSE IF \E i \in 1..Len(preds) : ~typed(i)
        THEN DbError("invalid input syntax for type integer")
      ELSE Return(OrderByName(SelectSeq(tbls.companies, keep)))

\* Company.filter / Job.filter is called: it throws at once, or builds the
\* clause and sends the SELECT
BeginFilter(p) ==
  /\ pc[p] \in {"idle", "done"}
  /\ nops < MaxFilterCalls
  /\ \E m \in Models : \E q \in QueryMappings :
       IF MaxBelowMin(q)
         THEN /\ pc' = [pc EXCEPT ![p] = "done"]
              /\ call' = [call EXCEPT ![p] =
                           [fn |-> "filter", model |-> m, queries |-> q, built |-> NoCall]]
              /\ ret' = [ret EXCEPT ![p] =
                          BadRequestError("Max employees cannot be less than min employees")]
              /\ tablesAtCall' = [tablesAtCall EXCEPT ![p] = tables]
              /\ sent' = [sent EXCEPT ![p] = <<>>]
              /\ nops' = nops + 1
         ELSE LET built == _sqlForWhereClause(q)
              IN  Begin(p, [fn |-> "filter", model |-> m, queries |-> q, built |-> built],
                        "select",
                        Statement(FilterSql(built.whereCondition), built.values))
  /\ UNCHANGED <<tables, uniqueKeys, sqlVars>>

\* the SELECT is executed: its rows are returned, or its error is thrown
FilterSelect(p) ==
  /\ pc[p] = "select"
  /\ ret' = [ret EXCEPT ![p] = ExecFilter(sent[p][1].sql, sent[p][1].values, tables)]
  /\ pc' = [pc EXCEPT ![p] = "done"]
  /\ UNCHANGED <<tables, uniqueKeys, call, tablesAtCall, sent, nops, sqlVars>>

\* one caller: each call ends before the next begins
SeqCallers == {1}

\* a sequential run of create and remove calls
NextSeq ==
  \E p \in SeqCallers :
    \/ BeginCreate(p) \/ CreateCheck(p) \/ CreateInsert(p)
    \/ BeginRemove(p) \/ RemoveDelete(p)

SpecSeq == InitDb /\ [][NextSeq]_vars

\* a sequential run of filter calls
NextFilter ==
  \E p \in SeqCallers : BeginFilter(p) \/ FilterSelect(p)

\* filter sends no INSERT: the schema's key declarations play no part
InitFilter == InitDb /\ uniqueKeys = TRUE

SpecFilter == InitFilter /\ [][NextFilter]_vars

IsBadRequest(r) == r.status = "throw" /\ r.error = "BadRequestError"

FinishedCreate(p) == call[p].fn = "create" /\ pc[p] = "done"

\* whether table rows of model m hold a row with the key of data
KeyPresent(tbls, m, data) ==
  Len(SelectByKey(tbls[TableOf(m)], m, KeyOf(m, data))) > 0

(***************************************************************************)
(* C11.  create in a sequential run.                                       *)
(***************************************************************************)
\* C11: when calls run one after another, a create whose handle (title) was in
\* the table when it was called has thrown BadRequestError and the tables are
\* as they were; a create whose key was absent has returned its row, and the
\* table holds that one row more.
C11_SequentialCreate ==
  \A p \in Procs :
    FinishedCreate(p) =>
      LET m == call[p].model
          row == call[p].data
      IN  IF KeyPresent(tablesAtCall[p], m, row)
            THEN /\ IsBadRequest(ret[p])
                 /\ tables = tablesAtCall[p]
            ELSE /\ ret[p] = Return(row)
                 /\ tables = [tablesAtCall[p] EXCEPT ![TableOf(m)] = Append(@, row)]

\* a create of a key the run itself inserted earlier has thrown
C11_Witness ==
  /\ FinishedCreate(1)
  /\ ~KeyPresent(FixtureTables, call[1].model, call[1].data)
  /\ KeyPresent(tablesAtCall[1], call[1].model, call[1].data)
  /\ IsBadRequest(ret[1])

(***************************************************************************)
(* C12.  Job.filter with title and minSalary.                              *)
(***************************************************************************)
\* the jobs whose title contains t and whose salary is at least n
JobsMatching(rows, t, n) ==
  SelectSeq(rows, LAMBDA r : Contains(r.title, t) /\ r.salary >= n)

\* C12: Job.filter with a title filter and a minSalary filter returns exactly
\* the jobs whose title matches and whose salary is at least minSalary.
C12_JobFilter ==
  \A p \in Procs :
    (/\ call[p].fn = "filter" /\ call[p].model = "Job" /\ pc[p] = "done"
     /\ {call[p].queries[i].key : i \in 1..Len(call[p].queries)} = {"title", "minSalary"}
     /\ IsDigitString(GetProp(call[p].queries, "minSalary").val)) =>
      /\ ret[p].status = "return"
      /\ ret[p].value =
           JobsMatching(tablesAtCall[p].jobs,
                        GetProp(call[p].queries, "title").val,
                        ReadNum(GetProp(call[p].queries, "minSalary").val, 1, 0))

(***************************************************************************)
(* C13.  maxEmployees below minEmployees.                                  *)
(***************************************************************************)
\* absent, or a string of decimal digits
IntegerOrAbsent(x) == x.type = "undefined" \/ IsDigitString(x.val)

\* C13: for integer (or absent) minEmployees and maxEmployees: when
\* maxEmployees < minEmployees, sqlForWhereClause on the mapping returns, and
\* Company.filter has thrown BadRequestError with no clause built and no
\* statement sent; otherwise Company.filter throws no BadRequestError.
C13_MaxBelowMinRejected ==
  \A p \in Procs :
    LET q == call[p].queries
        mx == GetProp(q, "maxEmployees")
        mn == GetProp(q, "minEmployees")
    IN  (/\ call[p].fn = "filter" /\ call[p].model = "Company"
         /\ IntegerOrAbsent(mx) /\ IntegerOrAbsent(mn)) =>
          IF /\ mx.type = "string" /\ mn.type = "string"
             /\ ReadNum(mx.val, 1, 0) < ReadNum(mn.val, 1, 0)
            THEN /\ sqlForWhereClause(q).status = "return"
                 /\ pc[p] = "done"
                 /\ IsBadRequest(ret[p])
                 /\ call[p].built = NoCall
                 /\ sent[p] = <<>>
            ELSE ~IsBadRequest(ret[p])

\* Company.filter was called with maxEmployees below minEmployees
C13_Witness ==
  /\ call[1].fn = "filter"
  /\ call[1].model = "Company"
  /\ GetProp(call[1].queries, "maxEmployees") = Str("1")
  /\ GetProp(call[1].queries, "minEmployees") = Str("10")
  /\ pc[1] = "done"

(***************************************************************************)
(* C14.  The WHERE keyword for an empty clause.                            *)
(***************************************************************************)
\* C14: the statement filter sends for an empty filter mapping has no WHERE,
\* and no statement filter sends has a WHERE with an empty condition.
C14_NoEmptyWhere ==
  \A p \in Procs :
    (call[p].fn = "filter" /\ Len(sent[p]) > 0) =>
      LET part == WherePart(sent[p][1].sql)
      IN  /\ Len(call[p].queries) = 0 => ~part.has
          /\ part.has => part.cond # ""

(***************************************************************************)
(* C15.  Two concurrent creates of one key.                                *)
(***************************************************************************)
\* C15: of two interleaved create calls with the same handle (title), never
\* are both past the duplicate check; and when both began with the key absent
\* and have finished, one has returned its row and the other has thrown
\* BadRequestError.
C15_AtMostOneInserts ==
  \A p, q \in Procs :
    (/\ p # q
     /\ call[p].fn = "create" /\ call[q].fn = "create"
     /\ call[p].model = call[q].model
     /\ KeyOf(call[p].model, call[p].data) = KeyOf(call[q].model, call[q].data)) =>
      /\ ~(pc[p] = "insert" /\ pc[q] = "insert")
      /\ (/\ pc[p] = "done" /\ pc[q] = "done"
          /\ ~KeyPresent(tablesAtCall[p], call[p].model, call[p].data)
          /\ ~KeyPresent(tablesAtCall[q], call[q].model, call[q].data)) =>
           \/ ret[p].status = "return" /\ IsBadRequest(ret[q])
           \/ ret[q].status = "return" /\ IsBadRequest(ret[p])

====
